---- MODULE Spec2Model ----
(***************************************************************************)
(* Fluid65: the SPH physics step of src/main.cpp (updateParticles and the  *)
(* kernels and samplers it calls), as a state machine over the global      *)
(* particle array.                                                         *)
(*                                                                         *)
(* Arithmetic.  The program computes in C `float`.  A float is modelled as *)
(* a binary floating-point number [m, e] of value m * 2^e whose            *)
(* significand m has Precision bits (binary32 has 24), every operation     *)
(* rounding its exact result toward zero.  Rounding is sign-symmetric and  *)
(* addition and multiplication are commutative, as in IEEE arithmetic.     *)
(* The exponent is unbounded: overflow to infinity, NaN and subnormals are *)
(* not modelled, and division by zero is outside the domain of FDiv.       *)
(***************************************************************************)
EXTENDS Integers, Sequences, FiniteSets, TLC

\* ------------------------------------------------------------------ bounds
\* Bits of significand kept by the model's float.
Precision == 12
\* Particles in the array (const int numParticles = 1000 in the source; the
\* loops and sums below range over 1..numParticles exactly as the code's do).
numParticles == 3
\* Calls of updateParticles made by the main loop before the model stops.
MaxSteps == 2

\* ------------------------------------------------------------- float model
Abs(n) == IF n < 0 THEN -n ELSE n

Sgn(n) == IF n < 0 THEN -1 ELSE IF n > 0 THEN 1 ELSE 0

\* Integer quotient rounded toward zero (b > 0).
TruncDiv(a, b) == Sgn(a) * (Abs(a) \div b)

\* The number of binary digits of n (0 < n < 2^30), looked for first in the
\* range the operand's origin makes likely: a literal, a quotient or root,
\* a sum, a product.
BitLen(n) ==
    IF n < 2^(Precision - 1)
    THEN CHOOSE k \in 1..(Precision - 1) : 2^(k - 1) <= n /\ n < 2^k
    ELSE IF n < 2^(Precision + 1)
    THEN CHOOSE k \in Precision..(Precision + 1) : 2^(k - 1) <= n /\ n < 2^k
    ELSE IF n < 2^(2 * Precision - 2)
    THEN CHOOSE k \in (Precision + 2)..(2 * Precision - 2) : 2^(k - 1) <= n /\ n < 2^k
    ELSE CHOOSE k \in (2 * Precision - 1)..30 : 2^(k - 1) <= n /\ n < 2^k

FZero == [m |-> 0, e |-> 0]

\* The float nearest to m * 2^e toward zero, in normal form.
Norm(m, e) ==
    IF m = 0 THEN FZero
    ELSE LET k == BitLen(Abs(m)) IN
         IF k > Precision
         THEN [m |-> TruncDiv(m, 2^(k - Precision)), e |-> e + (k - Precision)]
         ELSE [m |-> m * 2^(Precision - k), e |-> e - (Precision - k)]

\* An integer literal as a float.
F(n) == Norm(n, 0)

FNeg(a) == [m |-> -a.m, e |-> a.e]

FMul(a, b) == IF a.m = 0 \/ b.m = 0 THEN FZero ELSE Norm(a.m * b.m, a.e + b.e)

\* b is not zero: the program never divides by zero (sampleDensity).
FDiv(a, b) ==
    IF b.m # 0 /\ a.m = 0 THEN FZero
    ELSE Norm(TruncDiv(Sgn(b.m) * a.m * 2^Precision, Abs(b.m)), a.e - b.e - Precision)

\* hi.e >= lo.e; an addend more than Precision + 1 binary places below the
\* other is absorbed.
FAddOrdered(hi, lo) ==
    IF hi.e - lo.e > Precision + 1 THEN hi
    ELSE Norm(hi.m * 2^(hi.e - lo.e) + lo.m, lo.e)

FAdd(a, b) ==
    IF a.m = 0 THEN b
    ELSE IF b.m = 0 THEN a
    ELSE IF a.e >= b.e THEN FAddOrdered(a, b) ELSE FAddOrdered(b, a)

FSub(a, b) == FAdd(a, FNeg(b))

FLt(a, b) == FSub(a, b).m < 0

FLe(a, b) == FSub(a, b).m <= 0

FGe(a, b) == FLe(b, a)

FGt(a, b) == FLt(b, a)

\* The integer square root of n, for 2^(2 * Precision - 1) <= n <
\* 2^(2 * Precision + 1), found digit by digit in base SqrtBase: Root(lo, w)
\* is the multiple r of w in lo..(lo + SqrtBase * w - w) with
\* r^2 <= n < (r + w)^2.
SqrtBase == 2^((Precision + 4) \div 3)

ISqrt(n) ==
    LET Root(lo, w) ==
            CHOOSE r \in {lo + d * w : d \in 0..(SqrtBase - 1)} :
                r * r <= n /\ (r + w) * (r + w) > n
    IN  Root(Root(Root(0, SqrtBase * SqrtBase), SqrtBase), 1)

\* sqrtf of a non-negative float: the significand is scaled by an even or
\* odd power of two so that the remaining exponent is even.
sqrtf(a) ==
    IF a.m = 0 THEN FZero
    ELSE LET k == IF (a.e - Precision) % 2 = 0 THEN Precision ELSE Precision + 1
         IN  Norm(ISqrt(a.m * 2^k), (a.e - k) \div 2)

\* powf(x, n) for the whole-number exponents the program uses (2, 3, 6, 9).
RECURSIVE powf(_, _)
powf(x, n) == IF n = 1 THEN x ELSE FMul(powf(x, n - 1), x)


\* A decimal literal num/den (0.04f, 0.8f, ...) as a float.
Lit(num, den) == FDiv(F(num), F(den))

\* ------------------------------------------------------- raymath (Vector3)
Vec(x, y, z) == [x |-> x, y |-> y, z |-> z]

Vector3Zero == Vec(FZero, FZero, FZero)

Vector3Add(a, b) ==
    [x |-> FAdd(a.x, b.x), y |-> FAdd(a.y, b.y), z |-> FAdd(a.z, b.z)]

Vector3Subtract(a, b) ==
    [x |-> FSub(a.x, b.x), y |-> FSub(a.y, b.y), z |-> FSub(a.z, b.z)]

Vector3Scale(v, s) ==
    [x |-> FMul(v.x, s), y |-> FMul(v.y, s), z |-> FMul(v.z, s)]

Vector3Negate(v) == [x |-> FNeg(v.x), y |-> FNeg(v.y), z |-> FNeg(v.z)]

Vector3DotProduct(a, b) ==
    FAdd(FAdd(FMul(a.x, b.x), FMul(a.y, b.y)), FMul(a.z, b.z))

Vector3Length(v) ==
    sqrtf(FAdd(FAdd(FMul(v.x, v.x), FMul(v.y, v.y)), FMul(v.z, v.z)))

\* The zero vector is returned unchanged.
Vector3Normalize(v) ==
    LET length == Vector3Length(v) IN
    IF length.m = 0 THEN v ELSE Vector3Scale(v, FDiv(F(1), length))

\* Mutant: the normal component is removed once, not twice.
Vector3Reflect_Once(v, normal) ==
    LET dotProduct == Vector3DotProduct(v, normal) IN
    [x |-> FSub(v.x, FMul(normal.x, dotProduct)),
     y |-> FSub(v.y, FMul(normal.y, dotProduct)),
     z |-> FSub(v.z, FMul(normal.z, dotProduct))]

Vector3Reflect(v, normal) ==
    LET dotProduct == Vector3DotProduct(v, normal) IN
    [x |-> FSub(v.x, FMul(FMul(F(2), normal.x), dotProduct)),
     y |-> FSub(v.y, FMul(FMul(F(2), normal.y), dotProduct)),
     z |-> FSub(v.z, FMul(FMul(F(2), normal.z), dotProduct))]

\* ---------------------------------------------------- program constants
\* PI of raylib.h: 355/113 rounds to the same float as pi at this Precision.
PI == Lit(355, 113)

sphereSize == F(40)

sampleRadius == F(12)

restDensity == Lit(1, 10000)

gasConstant == F(100)

viscosity == Lit(1, 100)

surfaceTension == F(50)

\* updateParticles(0.04f) in the main loop.
deltaTime == Lit(4, 100)

Indices == 1..numParticles

\* ----------------------------------------------------- smoothing kernels
\* Every call in the program passes h = sampleRadius, so the normalisation
\* factors, which depend on h alone, are the constants below.
Poly6Coefficient ==
    FDiv(F(315), FMul(FMul(F(64), PI), powf(sampleRadius, 9)))

ViscosityCoefficient == FDiv(F(45), FMul(PI, powf(sampleRadius, 6)))

SpikyCoefficient == FDiv(F(15), FMul(PI, powf(sampleRadius, 6)))

\* 0 <= magnitude && magnitude <= h
InSupport(magnitude, h) == magnitude.m >= 0 /\ FLe(magnitude, h)

\* Mutant: the support test is 0 < magnitude, which leaves out r = 0.
W_poly6_NoSelf(r, h) ==
    LET magnitude == Vector3Length(r) IN
    IF magnitude.m > 0 /\ FLe(magnitude, h)
    THEN FMul(Poly6Coefficient,
              powf(FSub(FMul(h, h), FMul(magnitude, magnitude)), 3))
    ELSE FZero

W_poly6(r, h) ==
    LET magnitude == Vector3Length(r) IN
    IF InSupport(magnitude, h)
    THEN FMul(Poly6Coefficient,
              powf(FSub(FMul(h, h), FMul(magnitude, magnitude)), 3))
    ELSE FZero

W_poly6_Gradient(r, h) ==
    LET magnitude == Vector3Length(r) IN
    IF InSupport(magnitude, h)
    THEN FMul(FMul(FMul(Poly6Coefficient, FMul(F(-2), magnitude)), F(3)),
              powf(FSub(FMul(h, h), FMul(magnitude, magnitude)), 2))
    ELSE FZero

W_poly6_Laplacian(r, h) ==
    LET magnitude == Vector3Length(r) IN
    IF InSupport(magnitude, h)
    THEN FMul(FMul(FMul(Poly6Coefficient, F(6)),
                   FSub(FMul(h, h), FMul(magnitude, magnitude))),
              FSub(FMul(FMul(F(5), magnitude), magnitude), FMul(h, h)))
    ELSE FZero

W_viscosity_Laplacian(r, h) ==
    LET magnitude == Vector3Length(r) IN
    IF InSupport(magnitude, h)
    THEN FMul(ViscosityCoefficient, FSub(h, magnitude))
    ELSE FZero

W_spiky_Gradient(r, h) ==
    LET magnitude == Vector3Length(r) IN
    IF InSupport(magnitude, h)
    THEN FMul(FMul(FMul(SpikyCoefficient, F(-1)), F(3)),
              powf(FSub(h, magnitude), 2))
    ELSE FZero

\* ---------------------------------------------------------------- samplers
\* Each sampler receives `particle` by value and loops over the global array
\* ps; the operators below are the value its loop body adds for particles[j].

\* sampleDensity, line 124.
DensityTerm(ps, particle, j) ==
    FMul(ps[j].mass,
         W_poly6(Vector3Subtract(particle.position, ps[j].position), sampleRadius))

\* samplePressure, line 130.
samplePressure(particle) == FMul(gasConstant, FSub(particle.density, restDensity))

\* sampleColorGradient, lines 145-146.
ColorGradientTerm(ps, particle, j) ==
    LET r == Vector3Subtract(ps[j].position, particle.position) IN
    Vector3Scale(Vector3Normalize(r),
                 FMul(FMul(ps[j].mass, FDiv(F(1), ps[j].density)),
                      W_poly6_Gradient(r, sampleRadius)))

\* sampleColorDivergence, line 154.
ColorDivergenceTerm(ps, particle, j) ==
    Vector3Scale(ps[j].colorGradient,
                 FMul(FMul(ps[j].mass, FDiv(F(1), ps[j].density)),
                      W_poly6_Laplacian(
                          Vector3Subtract(particle.position, ps[j].position),
                          sampleRadius)))

\* Mutant: the direction is taken from the other particle's position, not
\* from the displacement between the two.
PressureTerm_NoDisplacement(ps, particle, j) ==
    LET r == Vector3Subtract(particle.position, ps[j].position) IN
    Vector3Scale(Vector3Normalize(ps[j].position),
                 FMul(FDiv(FMul(ps[j].mass, FAdd(particle.pressure, ps[j].pressure)),
                           FMul(F(2), ps[j].density)),
                      W_spiky_Gradient(r, sampleRadius)))

\* samplePressureForce, lines 162-163: the vector the loop subtracts.
PressureTerm(ps, particle, j) ==
    LET r == Vector3Subtract(particle.position, ps[j].position) IN
    Vector3Scale(Vector3Normalize(r),
                 FMul(FDiv(FMul(ps[j].mass, FAdd(particle.pressure, ps[j].pressure)),
                           FMul(F(2), ps[j].density)),
                      W_spiky_Gradient(r, sampleRadius)))

\* Mutant: the two velocities are added, not subtracted.
ViscosityTerm_Sum(ps, particle, j) ==
    Vector3Scale(Vector3Add(ps[j].velocity, particle.velocity),
                 FMul(FMul(FMul(viscosity, ps[j].mass), FDiv(F(1), ps[j].density)),
                      W_viscosity_Laplacian(
                          Vector3Subtract(particle.position, ps[j].position),
                          sampleRadius)))

\* sampleViscosityForce, line 171.
ViscosityTerm(ps, particle, j) ==
    Vector3Scale(Vector3Subtract(ps[j].velocity, particle.velocity),
                 FMul(FMul(FMul(viscosity, ps[j].mass), FDiv(F(1), ps[j].density)),
                      W_viscosity_Laplacian(
                          Vector3Subtract(particle.position, ps[j].position),
                          sampleRadius)))

\* sampleSurfaceTractionForce, line 177, given the value colorDivergence
\* that sampleColorDivergence returned.
SurfaceTraction(particle, colorDivergence) ==
    Vector3Scale(Vector3Normalize(particle.colorGradient),
                 FMul(FNeg(surfaceTension), Vector3Length(colorDivergence)))

\* ------------------------------------------- the bodies of updateParticles
\* Line 187: the second operand, Vector3Scale({0, 1, 0}, -0.1f * mass).
Gravity(particle) ==
    Vector3Scale(Vec(FZero, F(1), FZero), FMul(Lit(-1, 10), particle.mass))

\* Line 190.
AccelerationOf(particle, netForce) ==
    Vector3Scale(netForce, FDiv(F(1), particle.density))

\* Line 193.
IntegrateVelocity(particle, dt) ==
    Vector3Add(particle.velocity, Vector3Scale(particle.acceleration, dt))

\* Mutant: the distance test is strict.
BoundaryHit_Strict(particle) ==
    /\ FGt(Vector3Length(particle.position), FSub(sphereSize, F(1)))
    /\ FGt(Vector3DotProduct(particle.position, particle.velocity), FZero)

\* Lines 194 and 197: the two tests of the boundary handler.
BoundaryHit(particle) ==
    /\ FGe(Vector3Length(particle.position), FSub(sphereSize, F(1)))
    /\ FGt(Vector3DotProduct(particle.position, particle.velocity), FZero)

\* Mutant: the velocity is damped but not reflected.
BoundaryVelocity_NoReflect(particle) ==
    IF BoundaryHit(particle)
    THEN Vector3Scale(particle.velocity, Lit(8, 10))
    ELSE particle.velocity

\* Lines 194-198: the velocity the boundary handler leaves.
BoundaryVelocity(particle) ==
    IF BoundaryHit(particle)
    THEN Vector3Scale(
             Vector3Reflect(particle.velocity,
                            Vector3Negate(Vector3Normalize(particle.position))),
             Lit(8, 10))
    ELSE particle.velocity

\* Line 199.
IntegratePosition(particle, dt) ==
    Vector3Add(particle.position, Vector3Scale(particle.velocity, dt))

\* ------------------------------------------------------------------- state
VARIABLES
    particles,  \* the global array Particle particles[numParticles]
    pc,         \* the loop (or statement) of updateParticles that is running;
                \* "idle": main's loop, between two calls
    visited,    \* the particles the running loop of updateParticles is done with
    cur,        \* the particle that loop is working on (0: between iterations)
    j,          \* the running sampler's own loop index (particles[j] is next)
    accF,       \* sampleDensity's local `density`
    accV,       \* the local sum of the running vector sampler
    netForce,   \* updateParticles' local netForce
    steps,      \* calls of updateParticles completed
    prev,       \* history: the array when the running call began
    passStart,  \* history: the array when the running loop of updateParticles began
    written,    \* history: per field, the particles whose field this call assigned
    vUpdated,   \* history: per particle, its velocity right after line 193
    forces      \* history: per particle, what samplePressureForce and
                \* sampleViscosityForce returned for it in this call

locals == <<cur, j, accF, accV, netForce>>

history == <<steps, prev, passStart, written, vUpdated, forces>>

vars == <<particles, pc, visited, locals, history>>

Fields == {"density", "pressure", "colorGradient", "acceleration",
           "velocity", "position"}

NoWrites == [f \in Fields |-> {}]

NoForces == [i \in Indices |-> [pressure |-> Vector3Zero, viscosity |-> Vector3Zero]]

V3(x, y, z) == Vec(F(x), F(y), F(z))

\* A particle as main() creates it (lines 219-223), apart from the drawn
\* position and the velocity: the array is a zero-initialised global, mass 1.
NewParticle(position, velocity) ==
    [position |-> position, velocity |-> velocity, acceleration |-> Vector3Zero,
     mass |-> F(1), density |-> FZero, pressure |-> FZero,
     colorGradient |-> Vector3Zero]

\* Positions and velocities a particle may have when a frame begins: inside
\* the fluid, at rest or moving, alone or with neighbours in the support
\* radius; about to cross the threshold sphereSize - 1; exactly on it;
\* exactly on the sphere, moving outward, inward, or at rest.
Starts ==
    << <<V3(0, 0, 0),    V3(0, 0, 0)>>,
       <<V3(1, 0, 0),    V3(1, 2, 0)>>,
       <<V3(2, 3, 6),    V3(-1, 0, 2)>>,
       <<V3(0, -39, 0),  V3(0, 0, 0)>>,
       <<V3(0, -40, 0),  V3(0, 2, 0)>>,
       <<V3(40, 0, 0),   V3(30, 0, 0)>>,
       <<V3(38, 0, 0),   V3(30, 0, 0)>>,
       <<V3(40, 0, 0),   V3(0, 0, 0)>>,
       <<V3(0, 40, 0),   V3(0, 30, 0)>>,
       <<V3(24, 32, 0),  V3(-3, -4, 0)>>,
       <<V3(24, 32, 0),  V3(30, 40, 0)>> >>

StartOf(n) == Starts[((n - 1) % Len(Starts)) + 1]

\* The arrays the model starts from: particle i takes the start numbered
\* first + (i - 1) * stride.
MaxStride == 3

Arrays ==
    { [i \in Indices |->
          NewParticle(StartOf(first + (i - 1) * stride)[1],
                      StartOf(first + (i - 1) * stride)[2])] :
      first \in 1..Len(Starts), stride \in 1..MaxStride }

\* The array as a frame of main's loop finds it.  In the first frame the
\* positions are the drawn ones and the velocities zero; the fields density,
\* pressure, colorGradient and acceleration are as main() leaves them, and
\* every frame overwrites each of them before reading it.
Init ==
    /\ particles \in Arrays
    /\ pc = "idle"
    /\ visited = {}
    /\ cur = 0
    /\ j = 1
    /\ accF = FZero
    /\ accV = Vector3Zero
    /\ netForce = Vector3Zero
    /\ steps = 0
    /\ prev = particles
    /\ passStart = particles
    /\ written = NoWrites
    /\ vUpdated = [i \in Indices |-> particles[i].velocity]
    /\ forces = NoForces

\* ----------------------------------------------------------------- actions
\* A loop of updateParticles takes particle i: the one it is working on, or,
\* between iterations, one it has not visited.
Takes(i) == IF cur = 0 THEN i \notin visited ELSE i = cur

\* `for (int i = 0; i < numParticles; i++)`: between iterations the loop
\* takes the lowest particle not yet visited.
InOrder(i) == cur = 0 => i = Cardinality(visited) + 1

Wrote(fs, i) ==
    [f \in Fields |-> IF f \in fs THEN written[f] \cup {i} ELSE written[f]]

\* Mutant: the loop's bound is one short (i < numParticles - 1).
LoopAdvance_OneShort(i, here, after) ==
    /\ visited' = IF Cardinality(visited \cup {i}) >= numParticles - 1
                  THEN {} ELSE visited \cup {i}
    /\ pc' = IF Cardinality(visited \cup {i}) >= numParticles - 1 THEN after ELSE here
    /\ passStart' = IF Cardinality(visited \cup {i}) >= numParticles - 1
                    THEN particles' ELSE passStart
    /\ cur' = 0

\* The end of an iteration of a loop of updateParticles for particle i: the
\* loop goes on (`here`), or it ends and the next loop (`after`) begins.
LoopAdvance(i, here, after) ==
    /\ visited' = IF visited \cup {i} = Indices THEN {} ELSE visited \cup {i}
    /\ pc' = IF visited \cup {i} = Indices THEN after ELSE here
    /\ passStart' = IF visited \cup {i} = Indices THEN particles' ELSE passStart
    /\ cur' = 0

\* main's loop calls updateParticles(0.04f) (line 247).
BeginStep ==
    /\ pc = "idle"
    /\ steps < MaxSteps
    /\ pc' = "density"
    /\ prev' = particles
    /\ passStart' = particles
    /\ written' = NoWrites
    /\ forces' = NoForces
    /\ vUpdated' = [i \in Indices |-> particles[i].velocity]
    /\ UNCHANGED <<particles, visited, locals, steps>>

\* Line 182 for particle i: one iteration of sampleDensity's loop (line 124),
\* or, the loop over (j > numParticles), the return and the assignment.
DensityIter(i) ==
    /\ pc = "density"
    /\ Takes(i)
    /\ IF j <= numParticles
       THEN /\ accF' = FAdd(accF, DensityTerm(particles, particles[i], j))
            /\ j' = j + 1
            /\ cur' = i
            /\ UNCHANGED <<particles, pc, visited, passStart, written>>
       ELSE /\ particles' = [particles EXCEPT ![i].density = accF]
            /\ written' = Wrote({"density"}, i)
            /\ accF' = FZero
            /\ j' = 1
            /\ LoopAdvance(i, "density", "pressure")
    /\ UNCHANGED <<accV, netForce, steps, prev, vUpdated, forces>>

\* Line 183 for particle i.
PressureStep(i) ==
    /\ pc = "pressure"
    /\ Takes(i)
    /\ particles' = [particles EXCEPT ![i].pressure = samplePressure(particles[i])]
    /\ written' = Wrote({"pressure"}, i)
    /\ LoopAdvance(i, "pressure", "colorGradient")
    /\ UNCHANGED <<j, accF, accV, netForce, steps, prev, vUpdated, forces>>

\* Line 184 for particle i: one iteration of sampleColorGradient's loop, or
\* the return and the assignment.
ColorGradientIter(i) ==
    /\ pc = "colorGradient"
    /\ Takes(i)
    /\ IF j <= numParticles
       THEN /\ accV' = Vector3Add(accV, ColorGradientTerm(particles, particles[i], j))
            /\ j' = j + 1
            /\ cur' = i
            /\ UNCHANGED <<particles, pc, visited, passStart, written>>
       ELSE /\ particles' = [particles EXCEPT ![i].colorGradient = accV]
            /\ written' = Wrote({"colorGradient"}, i)
            /\ accV' = Vector3Zero
            /\ j' = 1
            /\ LoopAdvance(i, "colorGradient", "pressureForce")
    /\ UNCHANGED <<accF, netForce, steps, prev, vUpdated, forces>>

\* Line 187 for particle i: one iteration of samplePressureForce's loop, or
\* the return: netForce is the returned sum plus gravity.
PressureForceIter(i) ==
    /\ pc = "pressureForce"
    /\ Takes(i)
    /\ IF j <= numParticles
       THEN /\ accV' = Vector3Subtract(accV, PressureTerm(particles, particles[i], j))
            /\ j' = j + 1
            /\ UNCHANGED <<pc, netForce, forces>>
       ELSE /\ netForce' = Vector3Add(accV, Gravity(particles[i]))
            /\ forces' = [forces EXCEPT ![i].pressure = accV]
            /\ accV' = Vector3Zero
            /\ j' = 1
            /\ pc' = "viscosityForce"
    /\ cur' = i
    /\ UNCHANGED <<particles, visited, accF, steps, prev, passStart, written, vUpdated>>

\* Line 188 for the particle in hand: one iteration of sampleViscosityForce's
\* loop, or the return: the sum is added to netForce.
ViscosityForceIter ==
    /\ pc = "viscosityForce"
    /\ IF j <= numParticles
       THEN /\ accV' = Vector3Add(accV, ViscosityTerm(particles, particles[cur], j))
            /\ j' = j + 1
            /\ UNCHANGED <<pc, netForce, forces>>
       ELSE /\ netForce' = Vector3Add(netForce, accV)
            /\ forces' = [forces EXCEPT ![cur].viscosity = accV]
            /\ accV' = Vector3Zero
            /\ j' = 1
            /\ pc' = "surfaceForce"
    /\ UNCHANGED <<particles, visited, cur, accF, steps, prev, passStart, written,
                   vUpdated>>

\* Mutant: the force loop and the integration loop are fused, so line 193
\* runs for the particle as soon as its acceleration is assigned.
SurfaceForceIter_Fused ==
    /\ pc = "surfaceForce"
    /\ IF j <= numParticles
       THEN /\ accV' = Vector3Add(accV,
                                  ColorDivergenceTerm(particles, particles[cur], j))
            /\ j' = j + 1
            /\ UNCHANGED <<particles, pc, visited, cur, netForce, passStart, written>>
       ELSE /\ particles' =
                   [particles EXCEPT
                        ![cur].acceleration =
                            AccelerationOf(particles[cur],
                                Vector3Add(netForce,
                                           SurfaceTraction(particles[cur], accV))),
                        ![cur].velocity =
                            Vector3Add(particles[cur].velocity,
                                Vector3Scale(
                                    AccelerationOf(particles[cur],
                                        Vector3Add(netForce,
                                            SurfaceTraction(particles[cur], accV))),
                                    deltaTime))]
            /\ written' = Wrote({"acceleration", "velocity"}, cur)
            /\ accV' = Vector3Zero
            /\ netForce' = Vector3Zero
            /\ j' = 1
            /\ LoopAdvance(cur, "pressureForce", "velocity")
    /\ UNCHANGED <<accF, steps, prev, vUpdated, forces>>

\* Lines 189-190 for the particle in hand: one iteration of the loop of
\* sampleColorDivergence, which sampleSurfaceTractionForce calls, or the
\* returns: the traction is added to netForce and the acceleration assigned.
SurfaceForceIter ==
    /\ pc = "surfaceForce"
    /\ IF j <= numParticles
       THEN /\ accV' = Vector3Add(accV,
                                  ColorDivergenceTerm(particles, particles[cur], j))
            /\ j' = j + 1
            /\ UNCHANGED <<particles, pc, visited, cur, netForce, passStart, written>>
       ELSE /\ particles' =
                   [particles EXCEPT ![cur].acceleration =
                        AccelerationOf(particles[cur],
                            Vector3Add(netForce, SurfaceTraction(particles[cur], accV)))]
            /\ written' = Wrote({"acceleration"}, cur)
            /\ accV' = Vector3Zero
            /\ netForce' = Vector3Zero
            /\ j' = 1
            /\ LoopAdvance(cur, "pressureForce", "velocity")
    /\ UNCHANGED <<accF, steps, prev, vUpdated, forces>>

\* Line 193 for particle i.
VelocityStep(i) ==
    /\ pc = "velocity"
    /\ Takes(i)
    /\ particles' = [particles EXCEPT
                        ![i].velocity = IntegrateVelocity(particles[i], deltaTime)]
    /\ written' = Wrote({"velocity"}, i)
    /\ vUpdated' = [vUpdated EXCEPT ![i] = particles'[i].velocity]
    /\ cur' = i
    /\ pc' = "boundary"
    /\ UNCHANGED <<visited, j, accF, accV, netForce, steps, prev, passStart, forces>>

\* Lines 194-198 for the particle in hand: the boundary handler.
BoundaryStep ==
    /\ pc = "boundary"
    /\ particles' = [particles EXCEPT ![cur].velocity = BoundaryVelocity(particles[cur])]
    /\ written' = IF BoundaryHit(particles[cur]) THEN Wrote({"velocity"}, cur) ELSE written
    /\ pc' = "position"
    /\ UNCHANGED <<visited, locals, steps, prev, passStart, vUpdated, forces>>

\* Mutant: the position is moved with the velocity line 193 left, before the
\* boundary handler's change to it.
PositionStep_BeforeBoundary ==
    /\ pc = "position"
    /\ particles' = [particles EXCEPT
                        ![cur].position =
                            Vector3Add(particles[cur].position,
                                       Vector3Scale(vUpdated[cur], deltaTime))]
    /\ written' = Wrote({"position"}, cur)
    /\ LoopAdvance(cur, "velocity", "idle")
    /\ steps' = IF visited \cup {cur} = Indices THEN steps + 1 ELSE steps
    /\ UNCHANGED <<j, accF, accV, netForce, prev, vUpdated, forces>>

\* Line 199 for the particle in hand, then the loop's increment and test;
\* after the last particle updateParticles returns to main's loop.
PositionStep ==
    /\ pc = "position"
    /\ particles' = [particles EXCEPT
                        ![cur].position = IntegratePosition(particles[cur], deltaTime)]
    /\ written' = Wrote({"position"}, cur)
    /\ LoopAdvance(cur, "velocity", "idle")
    /\ steps' = IF visited \cup {cur} = Indices THEN steps + 1 ELSE steps
    /\ UNCHANGED <<j, accF, accV, netForce, prev, vUpdated, forces>>

Next ==
    \/ BeginStep
    \/ \E i \in Indices : InOrder(i) /\ DensityIter(i)
    \/ \E i \in Indices : InOrder(i) /\ PressureStep(i)
    \/ \E i \in Indices : InOrder(i) /\ ColorGradientIter(i)
    \/ \E i \in Indices : InOrder(i) /\ PressureForceIter(i)
    \/ ViscosityForceIter
    \/ SurfaceForceIter
    \/ \E i \in Indices : InOrder(i) /\ VelocityStep(i)
    \/ BoundaryStep
    \/ PositionStep

Spec == Init /\ [][Next]_vars

\* The same program with every loop of updateParticles free to take the
\* particles in any order (the order a reordered or parallel loop may take).
NextAnyOrder ==
    \/ BeginStep
    \/ \E i \in Indices : DensityIter(i)
    \/ \E i \in Indices : PressureStep(i)
    \/ \E i \in Indices : ColorGradientIter(i)
    \/ \E i \in Indices : PressureForceIter(i)
    \/ ViscosityForceIter
    \/ SurfaceForceIter
    \/ \E i \in Indices : VelocityStep(i)
    \/ BoundaryStep
    \/ PositionStep

SpecAnyOrder == Init /\ [][NextAnyOrder]_vars

\* ------------------------------------------------------------- properties
\* "Within tolerance": a relative error of 2^-(Precision - 5), a few dozen
\* roundings of the float model.
Tolerance == Norm(1, -(Precision - 5))

FAbs(a) == [m |-> Abs(a.m), e |-> a.e]

\* |a - b| <= Tolerance * (|a| + |b|)
Near(a, b) == FLe(FAbs(FSub(a, b)), FMul(Tolerance, FAdd(FAbs(a), FAbs(b))))

NearVec(a, b) ==
    FLe(Vector3Length(Vector3Subtract(a, b)),
        FMul(Tolerance, FAdd(Vector3Length(a), Vector3Length(b))))

\* The loops of updateParticles in which forces are summed.
ForcePhases == {"pressureForce", "viscosityForce", "surfaceForce"}

\* The threshold of the boundary: sphereSize - 1.0.
Threshold == FSub(sphereSize, F(1))

\* C1: within a call of updateParticles no pressure is written before every
\* particle's density is, no colorGradient before every pressure, no force
\* is summed and no acceleration written before every colorGradient, and no
\* velocity or position is changed before every acceleration is written.
C1_PassesInOrder ==
    /\ written["pressure"] # {} => written["density"] = Indices
    /\ written["colorGradient"] # {} => written["pressure"] = Indices
    /\ (pc \in ForcePhases \/ written["acceleration"] # {})
           => written["colorGradient"] = Indices
    /\ (written["velocity"] # {} \/ written["position"] # {})
           => written["acceleration"] = Indices

\* A second call is half way through its last loop.
C1_Witness ==
    /\ steps = 1
    /\ written["position"] # {}
    /\ written["position"] # Indices
    /\ written["density"] = Indices

\* C7: every density the density pass has written is greater than 0, no term
\* that sampleDensity's loop is about to add is negative, and once the pass
\* is over no particle's density (the divisor of the later passes) is zero.
C7_DensityPositive ==
    /\ \A i \in written["density"] : FGt(particles[i].density, FZero)
    /\ (pc = "density" /\ cur # 0 /\ j <= numParticles) =>
           FGe(DensityTerm(particles, particles[cur], j), FZero)
    /\ pc \notin {"idle", "density"} => \A i \in Indices : particles[i].density.m # 0

\* The density pass has written the density of a particle with no other
\* particle in its support: the density is the particle's own term.
C7_Witness ==
    \E i \in written["density"] :
        /\ pc = "pressure"
        /\ \A k \in Indices \ {i} : DensityTerm(particles, particles[i], k) = FZero
        /\ particles[i].density = DensityTerm(particles, particles[i], i)

\* The condition of the boundary handler as the specification words it.
AtThresholdMovingOutward(position, velocity) ==
    /\ FGe(Vector3Length(position), Threshold)
    /\ FGt(Vector3DotProduct(position, velocity), FZero)

\* v reflected about the normal along p and scaled by 0.8:
\* 0.8 * v - 1.6 * (p . v / p . p) * p.
ReflectedAndDamped(p, v) ==
    Vector3Subtract(
        Vector3Scale(v, Lit(8, 10)),
        Vector3Scale(p, FDiv(FMul(Lit(16, 10), Vector3DotProduct(p, v)),
                             Vector3DotProduct(p, p))))

\* C3: right after the boundary handler ran for a particle, its velocity
\* differs from the one line 193 left exactly when its distance is at least
\* sphereSize - 1 and dot(position, velocity) > 0; it is then that velocity
\* reflected about the normal and scaled by 0.8; and no position has changed
\* but by line 199.
C3_BoundaryHandler ==
    pc = "position" =>
        /\ (particles[cur].velocity # vUpdated[cur])
               <=> AtThresholdMovingOutward(prev[cur].position, vUpdated[cur])
        /\ AtThresholdMovingOutward(prev[cur].position, vUpdated[cur])
               => NearVec(particles[cur].velocity,
                          ReflectedAndDamped(prev[cur].position, vUpdated[cur]))
        /\ \A i \in Indices \ written["position"] :
               particles[i].position = prev[i].position

\* The handler has just reflected a particle that is exactly on the threshold.
C3_Witness ==
    /\ pc = "position"
    /\ particles[cur].velocity # vUpdated[cur]
    /\ Vector3Length(prev[cur].position) = Threshold

\* The particles line 199 has moved in the running (or last) call.
Moved == written["position"]

\* v points along p or against it: the cross product is zero.
Radial(p, v) ==
    /\ FSub(FMul(p.y, v.z), FMul(p.z, v.y)).m = 0
    /\ FSub(FMul(p.z, v.x), FMul(p.x, v.z)).m = 0
    /\ FSub(FMul(p.x, v.y), FMul(p.y, v.x)).m = 0

\* The radial component of v at p.
RadialComponent(p, v) == FDiv(Vector3DotProduct(p, v), Vector3Length(p))

OnSphere(i) == Vector3Length(prev[i].position) = sphereSize

\* C4 as the specification states it: a particle that was at distance exactly
\* sphereSize moving radially outward at speed v when the step began has,
\* once moved, a velocity of radial component -0.8 * v; one that was moving
\* radially inward has the velocity line 193 left it.
C4_ReflectionOfInitialVelocity ==
    \A i \in Moved :
        (OnSphere(i) /\ Radial(prev[i].position, prev[i].velocity)) =>
            /\ FGt(Vector3DotProduct(prev[i].position, prev[i].velocity), FZero)
                   => Near(RadialComponent(prev[i].position, particles[i].velocity),
                           FMul(Lit(-8, 10), Vector3Length(prev[i].velocity)))
            /\ FLt(Vector3DotProduct(prev[i].position, prev[i].velocity), FZero)
                   => particles[i].velocity = vUpdated[i]

\* C4, amended: the velocity that counts is the one after line 193.  A
\* particle that was at distance exactly sphereSize and whose velocity after
\* velocity += acceleration * dt has radial component u > 0 has, once moved,
\* a velocity of radial component -0.8 * u; one whose updated velocity has
\* radial component <= 0 keeps that velocity.
C4_ReflectionOfUpdatedVelocity ==
    \A i \in Moved :
        OnSphere(i) =>
            /\ FGt(Vector3DotProduct(prev[i].position, vUpdated[i]), FZero)
                   => Near(RadialComponent(prev[i].position, particles[i].velocity),
                           FMul(Lit(-8, 10),
                                RadialComponent(prev[i].position, vUpdated[i])))
            /\ FLe(Vector3DotProduct(prev[i].position, vUpdated[i]), FZero)
                   => particles[i].velocity = vUpdated[i]

\* A particle that was exactly on the sphere has been reflected and moved.
C4_Witness ==
    \E i \in Moved :
        /\ OnSphere(i)
        /\ FGt(Vector3DotProduct(prev[i].position, vUpdated[i]), FZero)
        /\ particles[i].velocity # vUpdated[i]

\* C5: when samplePressureForce's loop, run for particle cur, is about to use
\* the term for particles[j], and the two particles have equal density and
\* equal pressure, that term is the exact negation of the term the loop run
\* for particle j uses for particles[cur].
C5_PressureTermAntisymmetric ==
    (/\ pc = "pressureForce"
     /\ cur # 0
     /\ j <= numParticles
     /\ particles[cur].density = particles[j].density
     /\ particles[cur].pressure = particles[j].pressure)
        => PressureTerm(particles, particles[cur], j)
               = Vector3Negate(PressureTerm(particles, particles[j], cur))

\* Two distinct particles of equal density and pressure push each other.
C5_Witness ==
    /\ pc = "pressureForce"
    /\ cur # 0
    /\ j <= numParticles
    /\ j # cur
    /\ particles[cur].density = particles[j].density
    /\ particles[cur].pressure = particles[j].pressure
    /\ PressureTerm(particles, particles[cur], j) # Vector3Zero

\* The momentum particle i gains in one step from the pressure and the
\* viscosity force alone: mass * (force * (1 / density)) * dt, the
\* acceleration built as on line 190.
MomentumChange(i) ==
    Vector3Scale(
        Vector3Scale(Vector3Add(forces[i].pressure, forces[i].viscosity),
                     FDiv(F(1), particles[i].density)),
        FMul(particles[i].mass, deltaTime))

RECURSIVE TotalMomentumChange(_)
TotalMomentumChange(n) ==
    IF n = 0 THEN Vector3Zero
    ELSE Vector3Add(TotalMomentumChange(n - 1), MomentumChange(n))

RECURSIVE TotalMomentumMoved(_)
TotalMomentumMoved(n) ==
    IF n = 0 THEN FZero
    ELSE FAdd(TotalMomentumMoved(n - 1), Vector3Length(MomentumChange(n)))

\* C6: once every acceleration of a step is written, the momentum changes
\* that the pressure and viscosity forces alone cause sum, over all
\* particles, to zero within tolerance (relative to the momentum exchanged).
C6_MomentumConserved ==
    written["acceleration"] = Indices =>
        FLe(Vector3Length(TotalMomentumChange(numParticles)),
            FMul(Tolerance, TotalMomentumMoved(numParticles)))

\* Pressure and viscosity both act on some particle, and the particles'
\* densities are not all equal.
C6_Witness ==
    /\ written["acceleration"] = Indices
    /\ \E i \in Indices :
           /\ forces[i].pressure # Vector3Zero
           /\ forces[i].viscosity # Vector3Zero
    /\ \E a, b \in Indices : particles[a].density # particles[b].density

\* C9: a moved particle's velocity after line 193 is its old velocity plus
\* acceleration * dt; the velocity it ends with is what the boundary handler
\* makes of that velocity at the position not yet moved; and its position is
\* the old position plus that final velocity * dt.
C9_IntegratorOrder ==
    \A i \in Moved :
        /\ vUpdated[i] = IntegrateVelocity(
                             [particles[i] EXCEPT !.velocity = prev[i].velocity],
                             deltaTime)
        /\ particles[i].velocity =
               BoundaryVelocity([prev[i] EXCEPT !.velocity = vUpdated[i]])
        /\ particles[i].position =
               IntegratePosition(
                   [prev[i] EXCEPT !.velocity = particles[i].velocity], deltaTime)

\* A particle inside the threshold crossed it in the move: a boundary test
\* after the move would have reflected it.
C9_Witness ==
    \E i \in Moved :
        /\ FLt(Vector3Length(prev[i].position), Threshold)
        /\ AtThresholdMovingOutward(particles[i].position, particles[i].velocity)
        /\ particles[i].velocity = vUpdated[i]
        /\ vUpdated[i] # prev[i].velocity

\* C10: a moved particle that was at or beyond the threshold was moved with
\* a velocity of dot(old position, velocity) <= 0; and a reflection leaves
\* 0.8 times the speed, never more than the speed before it.
C10_NoOutwardMoveAtBoundary ==
    \A i \in Moved :
        /\ FGe(Vector3Length(prev[i].position), Threshold)
               => FLe(Vector3DotProduct(prev[i].position, particles[i].velocity), FZero)
        /\ particles[i].velocity # vUpdated[i]
               => /\ Near(Vector3Length(particles[i].velocity),
                          FMul(Lit(8, 10), Vector3Length(vUpdated[i])))
                  /\ FLe(Vector3Length(particles[i].velocity),
                         Vector3Length(vUpdated[i]))

\* A particle beyond the threshold was reflected and moved inward.
C10_Witness ==
    \E i \in Moved :
        /\ FGt(Vector3Length(prev[i].position), Threshold)
        /\ particles[i].velocity # vUpdated[i]
        /\ FLt(Vector3DotProduct(prev[i].position, particles[i].velocity), FZero)

\* What sampleDensity and sampleColorGradient return for particle i of the
\* array ps: the sum of the first n terms of the loop.
RECURSIVE DensitySum(_, _, _)
DensitySum(ps, i, n) ==
    IF n = 0 THEN FZero
    ELSE FAdd(DensitySum(ps, i, n - 1), DensityTerm(ps, ps[i], n))

RECURSIVE ColorGradientSum(_, _, _)
ColorGradientSum(ps, i, n) ==
    IF n = 0 THEN Vector3Zero
    ELSE Vector3Add(ColorGradientSum(ps, i, n - 1), ColorGradientTerm(ps, ps[i], n))

\* The particles the running loop of updateParticles has still to finish.
ToCome == Indices \ visited

\* C2: whatever the order in which a loop of updateParticles takes the
\* particles, between any two of its iterations everything it will compute
\* from the array for a particle still to come is what it would compute from
\* the array as it stood when the loop began, and the fields it has written
\* are the sampler's value on that array; in the last loop a particle not
\* yet taken is as it was when the loop began.
C2_NoWorkInProgressReads ==
    /\ (pc = "density" /\ cur = 0) =>
           /\ \A i \in ToCome, k \in Indices :
                  DensityTerm(particles, particles[i], k)
                      = DensityTerm(passStart, passStart[i], k)
           /\ \A i \in visited :
                  particles[i].density = DensitySum(passStart, i, numParticles)
    /\ pc = "pressure" =>
           /\ \A i \in ToCome :
                  samplePressure(particles[i]) = samplePressure(passStart[i])
           /\ \A i \in visited :
                  particles[i].pressure = samplePressure(passStart[i])
    /\ (pc = "colorGradient" /\ cur = 0) =>
           /\ \A i \in ToCome, k \in Indices :
                  ColorGradientTerm(particles, particles[i], k)
                      = ColorGradientTerm(passStart, passStart[i], k)
           /\ \A i \in visited :
                  particles[i].colorGradient
                      = ColorGradientSum(passStart, i, numParticles)
    /\ (pc = "pressureForce" /\ cur = 0) =>
           \A i \in ToCome, k \in Indices :
               /\ PressureTerm(particles, particles[i], k)
                      = PressureTerm(passStart, passStart[i], k)
               /\ ViscosityTerm(particles, particles[i], k)
                      = ViscosityTerm(passStart, passStart[i], k)
               /\ ColorDivergenceTerm(particles, particles[i], k)
                      = ColorDivergenceTerm(passStart, passStart[i], k)
               /\ particles[i].density = passStart[i].density
               /\ particles[i].colorGradient = passStart[i].colorGradient
               /\ particles[i].mass = passStart[i].mass
    /\ pc \in {"velocity", "boundary", "position"} =>
           \A i \in ToCome \ {cur} : particles[i] = passStart[i]

\* The force loop has taken a later particle first, and the first particle,
\* still to come, has that particle in its support.
C2_Witness ==
    /\ pc = "pressureForce"
    /\ cur = 0
    /\ 1 \notin visited
    /\ \E k \in visited :
           /\ PressureTerm(particles, particles[1], k) # Vector3Zero
           /\ ViscosityTerm(particles, particles[1], k) # Vector3Zero
====
